---- MODULE Spec2Model ----
(***************************************************************************)
(* Model of the Acuity invoice parser (src/acuity_invoice_agent.py and     *)
(* src/acuity_invoice_parser.py): cell access, normalisation, validation,  *)
(* the row loop of parse_file, aggregation by SKU and the result envelope. *)
(*                                                                         *)
(* Text is a sequence of one-character strings, so that strip(), upper(),  *)
(* len() and the ordering of SKUs are computed and not assumed.            *)
(* A float is a record [t, n, d]: t = "null" is Python None, t = "nan" is  *)
(* the float NaN, t = "num" is the rational n/d in lowest terms (d > 0).   *)
(***************************************************************************)
EXTENDS Integers, Sequences, FiniteSets, TLC

VARIABLES
    source_ok,      \* pd.read_excel(file_path) succeeds
    df,             \* the rows of the DataFrame read from the source
    ncols,          \* the number of columns of the DataFrame (same for all rows)
    self_validate,  \* self.validate
    self_max_items, \* self.max_items: <<>> for None, <<n>> for the number n
    aggregate,      \* the aggregate argument of parse_file
    pc,             \* position of parse_file: "start", "loop", "done"
    idx,            \* index of the next row of df.iterrows() (0-based)
    line_items,     \* the local list line_items
    errors,         \* the local list errors
    self_metadata,  \* self.metadata
    result,         \* the dictionary parse_file returns
    fn_arg,         \* argument of the pure function under test
    fn_ret,         \* its return value
    fn_pc           \* "idle" (not used), "call", "ret", "ret2"

vars == <<source_ok, df, ncols, self_validate, self_max_items, aggregate, pc, idx,
          line_items, errors, self_metadata, result, fn_arg, fn_ret, fn_pc>>

parse_vars == <<source_ok, df, ncols, self_validate, self_max_items, aggregate, pc,
                idx, line_items, errors, self_metadata, result>>

fn_vars == <<fn_arg, fn_ret, fn_pc>>

(***************************************************************************)
(* Text                                                                    *)
(***************************************************************************)
LowerCase == <<"a","b","c","d","e","f","g","h","i","j","k","l","m",
               "n","o","p","q","r","s","t","u","v","w","x","y","z">>

UpperCase == <<"A","B","C","D","E","F","G","H","I","J","K","L","M",
               "N","O","P","Q","R","S","T","U","V","W","X","Y","Z">>

Digits == <<"0","1","2","3","4","5","6","7","8","9">>

Occurs(seq, c) == \E i \in 1..Len(seq) : seq[i] = c

IndexOf(seq, c) == CHOOSE i \in 1..Len(seq) : seq[i] = c

\* ord(c): the code point of a character of the model's alphabet
ord(c) ==
    IF Occurs(LowerCase, c) THEN 96 + IndexOf(LowerCase, c)
    ELSE IF Occurs(UpperCase, c) THEN 64 + IndexOf(UpperCase, c)
    ELSE IF Occurs(Digits, c) THEN 47 + IndexOf(Digits, c)
    ELSE IF c = "/" THEN 47
    ELSE 32

\* str.upper() on one character
upper_char(c) == IF Occurs(LowerCase, c) THEN UpperCase[IndexOf(LowerCase, c)] ELSE c

\* str.upper()
str_upper(s) == [i \in 1..Len(s) |-> upper_char(s[i])]

SetMin(S) == CHOOSE x \in S : \A y \in S : x <= y

SetMax(S) == CHOOSE x \in S : \A y \in S : y <= x

\* str.strip(): leading and trailing blanks removed
str_strip(s) ==
    LET solid == {i \in 1..Len(s) : s[i] # " "}
    IN  IF solid = {} THEN <<>> ELSE SubSeq(s, SetMin(solid), SetMax(solid))

\* a < b for Python str: lexicographic by code point
str_lt(a, b) ==
    \E k \in 1..Len(b) :
        /\ k <= Len(a) + 1
        /\ \A j \in 1..(k - 1) : a[j] = b[j]
        /\ (k = Len(a) + 1 \/ ord(a[k]) < ord(b[k]))

\* dict.get(key, default) on a dictionary given as a set of <<key, value>> pairs
dict_get(d, key, default) ==
    IF \E p \in d : p[1] = key THEN (CHOOSE p \in d : p[1] = key)[2] ELSE default

(***************************************************************************)
(* Floats                                                                  *)
(***************************************************************************)
Null == [t |-> "null", n |-> 0, d |-> 1]

NaN == [t |-> "nan", n |-> 0, d |-> 1]

Abs(x) == IF x < 0 THEN -x ELSE x

RECURSIVE Gcd(_, _)
Gcd(a, b) == IF b = 0 THEN a ELSE Gcd(b, a % b)

\* the rational n/d (d # 0) in lowest terms with a positive denominator
Frac(n, d) ==
    LET g == Gcd(Abs(n), Abs(d))
        s == IF d < 0 THEN -1 ELSE 1
    IN  [t |-> "num", n |-> s * (n \div g), d |-> s * (d \div g)]

Num(n) == [t |-> "num", n |-> n, d |-> 1]

IsNum(x) == x.t = "num"

f_add(x, y) == Frac(x.n * y.d + y.n * x.d, x.d * y.d)

f_div(x, y) == Frac(x.n * y.d, x.d * y.n)

\* x > 0, x <= 0, x < 0 on floats; every comparison with NaN is False
f_gt0(x) == IsNum(x) /\ x.n > 0

f_le0(x) == IsNum(x) /\ x.n <= 0

f_lt0(x) == IsNum(x) /\ x.n < 0

(***************************************************************************)
(* Results of Python expressions that can raise                            *)
(***************************************************************************)
Ok(v) == [exc |-> "", v |-> v]

Raise(e) == [exc |-> e, v |-> <<>>]

bind(r, F(_)) == IF r.exc # "" THEN r ELSE F(r.v)

(***************************************************************************)
(* Cells of the DataFrame.  "nan" is the missing marker, "str" a text      *)
(* cell, "num" a number, "bigint" a Python int beyond the range of float   *)
(* (float() raises OverflowError on it).                                   *)
(***************************************************************************)
NaNCell == [k |-> "nan", s |-> <<>>, n |-> 0]

StrCell(s) == [k |-> "str", s |-> s, n |-> 0]

NumCell(n) == [k |-> "num", s |-> <<>>, n |-> n]

BigCell == [k |-> "bigint", s |-> <<>>, n |-> 0]

pd_isna(cell) == cell.k = "nan"

\* str(value); the text positions of the model hold text or the missing marker
py_str(cell) == cell.s

\* truth value of a cell: '' and 0 are falsy, NaN is truthy
py_truthy(cell) ==
    CASE cell.k = "str" -> Len(cell.s) > 0
      [] cell.k = "num" -> cell.n # 0
      [] OTHER -> TRUE

RECURSIVE digits_value(_)
digits_value(s) ==
    IF s = <<>> THEN 0
    ELSE 10 * digits_value(SubSeq(s, 1, Len(s) - 1)) + (IndexOf(Digits, s[Len(s)]) - 1)

\* float() of a text whose blanks are stripped: the digits of the model's alphabet
parse_float(body) ==
    IF body # <<>> /\ \A i \in 1..Len(body) : Occurs(Digits, body[i])
    THEN Ok(Num(digits_value(body)))
    ELSE Raise("ValueError")

\* float(value)
py_float(cell) ==
    CASE cell.k = "num" -> Ok(Num(cell.n))
      [] cell.k = "bigint" -> Raise("OverflowError")
      [] cell.k = "str" -> parse_float(str_strip(cell.s))
      [] OTHER -> Ok(NaN)

(***************************************************************************)
(* Code tables and column positions                                        *)
(***************************************************************************)
\* a table in which the value of one entry is the key of another
COUNTRY_CODES_chained == {
    << <<"M","E","X">>, <<"U","S","A">> >>, << <<"U","S","A">>, <<"U","S">> >> }

COUNTRY_CODES == {
    << <<"M","E","X">>, <<"M","X">> >>, << <<"U","S","A">>, <<"U","S">> >>,
    << <<"C","A","N">>, <<"C","A">> >>, << <<"C","H","N">>, <<"C","N">> >>,
    << <<"J","P","N">>, <<"J","P">> >>, << <<"D","E","U">>, <<"D","E">> >>,
    << <<"G","B","R">>, <<"G","B">> >>, << <<"F","R","A">>, <<"F","R">> >>,
    << <<"I","T","A">>, <<"I","T">> >>, << <<"E","S","P">>, <<"E","S">> >>,
    << <<"B","R","A">>, <<"B","R">> >>, << <<"I","N","D">>, <<"I","N">> >>,
    << <<"K","O","R">>, <<"K","R">> >>, << <<"T","W","N">>, <<"T","W">> >>,
    << <<"T","H","A">>, <<"T","H">> >>, << <<"V","N","M">>, <<"V","N">> >>,
    << <<"M","Y","S">>, <<"M","Y">> >>, << <<"S","G","P">>, <<"S","G">> >>,
    << <<"I","D","N">>, <<"I","D">> >>, << <<"P","H","L">>, <<"P","H">> >> }

UNIT_CODES == {
    << <<"P","Z","S">>, <<"P","C","S">> >>, << <<"P","Z","A">>, <<"P","C","S">> >>,
    << <<"K","G","S">>, <<"K","G">> >>, << <<"K","G","M">>, <<"K","G">> >>,
    << <<"L","B","S">>, <<"L","B">> >>, << <<"M","T","S">>, <<"M">> >>,
    << <<"M","T","R">>, <<"M">> >>, << <<"L","T","S">>, <<"L">> >>,
    << <<"L","T","R">>, <<"L">> >>, << <<"U","N","I">>, <<"E","A">> >>,
    << <<"C","A","J">>, <<"C","S">> >>, << <<"P","A","R">>, <<"P","R">> >> }

COLUMN_MAP == [sku |-> 19, description |-> 23, hts |-> 42, country_of_origin |-> 38,
               quantity |-> 20, net_weight |-> 33, gross_weight |-> 34,
               unit_price |-> 25, value |-> 28, qty_unit |-> 21]

header_cols == [invoice_number |-> 1, pedimento |-> 0, cove |-> 2, date |-> 3,
                vendor |-> 7, incoterm |-> 14, currency |-> 15, total_value |-> 16]

\* the column positions the program reads
Positions == {COLUMN_MAP[f] : f \in DOMAIN COLUMN_MAP} \cup
             {header_cols[f] : f \in DOMAIN header_cols}

\* row.iloc[pos] on a row of n columns: IndexError beyond the last column
iloc(row, pos, n) == IF pos < n THEN Ok(row[pos]) ELSE Raise("IndexError")

(***************************************************************************)
(* Normalizer                                                              *)
(***************************************************************************)
\* a lookup that drops the codes the table does not know
country_lookup_known_only(c) == IF Len(c) # 2 THEN dict_get(COUNTRY_CODES, c, <<>>) ELSE c

\* COUNTRY_CODES.get(code, code) if len(code) != 2 else code
country_lookup(c) == IF Len(c) # 2 THEN dict_get(COUNTRY_CODES, c, c) ELSE c

convert_country_code(code) ==
    IF ~py_truthy(code) \/ pd_isna(code) THEN <<>>
    ELSE country_lookup(str_upper(str_strip(py_str(code))))

\* acuity_invoice_parser.py: the table has the entries of COUNTRY_CODES
COUNTRY_CODE_MAP == COUNTRY_CODES

\* if len(code) == 2: return code; return COUNTRY_CODE_MAP.get(code, code)
parser_country_lookup(c) == IF Len(c) = 2 THEN c ELSE dict_get(COUNTRY_CODE_MAP, c, c)

\* acuity_invoice_parser.convert_country_code
parser_convert_country_code(country_code) ==
    IF ~py_truthy(country_code) \/ pd_isna(country_code) THEN <<>>
    ELSE parser_country_lookup(str_upper(str_strip(py_str(country_code))))

\* UNIT_CODES.get(unit, unit)
unit_lookup(u) == dict_get(UNIT_CODES, u, u)

convert_unit(unit) ==
    IF ~py_truthy(unit) \/ pd_isna(unit) THEN <<>>
    ELSE unit_lookup(str_upper(str_strip(py_str(unit))))

\* a handler that catches TypeError only
except_type_only(r) == IF r.exc \in {"TypeError"} THEN Ok(Null) ELSE r

\* except (ValueError, TypeError): return None; any other exception propagates
except_value_type(r) == IF r.exc \in {"ValueError", "TypeError"} THEN Ok(Null) ELSE r

\* clean_numeric / clean_value: None for a missing cell, float(value) otherwise
clean_numeric(value) ==
    IF pd_isna(value) THEN Ok(Null) ELSE except_value_type(py_float(value))

(***************************************************************************)
(* Validator                                                               *)
(***************************************************************************)
\* a validator whose quantity rule is < 0 and whose value rule is <= 0
validate_item_swapped(item) ==
    (IF item.sku = <<>> THEN <<"Missing SKU">> ELSE <<>>)
    \o (IF item.hts = <<>> THEN <<"Missing HTS code">> ELSE <<>>)
    \o (IF item.country_of_origin = <<>> THEN <<"Missing country of origin">> ELSE <<>>)
    \o (IF item.quantity = Null THEN <<"Missing quantity">>
        ELSE IF f_lt0(item.quantity) THEN <<"Invalid quantity (must be > 0)">>
        ELSE <<>>)
    \o (IF item.value = Null THEN <<"Missing value">>
        ELSE IF f_le0(item.value) THEN <<"Invalid value (must be >= 0)">>
        ELSE <<>>)

validate_item(item) ==
    (IF item.sku = <<>> THEN <<"Missing SKU">> ELSE <<>>)
    \o (IF item.hts = <<>> THEN <<"Missing HTS code">> ELSE <<>>)
    \o (IF item.country_of_origin = <<>> THEN <<"Missing country of origin">> ELSE <<>>)
    \o (IF item.quantity = Null THEN <<"Missing quantity">>
        ELSE IF f_le0(item.quantity) THEN <<"Invalid quantity (must be > 0)">>
        ELSE <<>>)
    \o (IF item.value = Null THEN <<"Missing value">>
        ELSE IF f_lt0(item.value) THEN <<"Invalid value (must be >= 0)">>
        ELSE <<>>)

(***************************************************************************)
(* FieldExtractor: the item dictionary built inside the inner try of       *)
(* parse_file.  The entries are evaluated in the order written, so the     *)
(* first one that raises decides the exception.                            *)
(***************************************************************************)
text_field(c) == IF ~pd_isna(c) THEN Ok(str_strip(py_str(c))) ELSE Ok(<<>>)

country_field(c) == Ok(convert_country_code(c))

unit_field(c) == Ok(convert_unit(c))

\* the dictionary of lines 196-212 from the results of its entries
make_item(i, sku, description, hts, country, quantity, qty_unit, net_weight, gross_weight, unit_price, value) ==
    LET parts == <<description, hts, country, quantity, qty_unit, net_weight,
                   gross_weight, unit_price, value>>
        raised == {j \in 1..Len(parts) : parts[j].exc # ""}
    IN  IF raised # {} THEN Raise(parts[SetMin(raised)].exc)
        ELSE Ok([line_number |-> i + 1,
                 sku |-> str_strip(py_str(sku)),
                 description |-> description.v,
                 hts |-> hts.v,
                 country_of_origin |-> country.v,
                 quantity |-> quantity.v,
                 qty_unit |-> qty_unit.v,
                 net_weight |-> net_weight.v,
                 gross_weight |-> gross_weight.v,
                 unit_price |-> unit_price.v,
                 value |-> value.v])

extract_item(i, row, n, sku) ==
    make_item(i, sku,
              bind(iloc(row, COLUMN_MAP.description, n), text_field),
              bind(iloc(row, COLUMN_MAP.hts, n), text_field),
              bind(iloc(row, COLUMN_MAP.country_of_origin, n), country_field),
              bind(iloc(row, COLUMN_MAP.quantity, n), clean_numeric),
              bind(iloc(row, COLUMN_MAP.qty_unit, n), unit_field),
              bind(iloc(row, COLUMN_MAP.net_weight, n), clean_numeric),
              bind(iloc(row, COLUMN_MAP.gross_weight, n), clean_numeric),
              bind(iloc(row, COLUMN_MAP.unit_price, n), clean_numeric),
              bind(iloc(row, COLUMN_MAP.value, n), clean_numeric))

\* a blank test that forgets to strip
blank_sku_unstripped(sku) == pd_isna(sku) \/ py_str(sku) = <<>>

\* pd.isna(sku) or str(sku).strip() == ''
blank_sku(sku) == pd_isna(sku) \/ str_strip(py_str(sku)) = <<>>

\* an entry of errors appended by the inner except: 'Parse error: ' + str(e)
parse_error(i, exc) == [line |-> i + 1, error |-> exc]

\* an entry of errors appended when the validator reports issues
validation_error(i, issues) == [line |-> i + 1, errors |-> issues]

StepOut(kind, items, errs, exc) ==
    [kind |-> kind, line_items |-> items, errors |-> errs, exc |-> exc]

(***************************************************************************)
(* One iteration of the row loop of parse_file on row i of a DataFrame of  *)
(* n columns.  kind is "break" (max_items reached), "abort" (the SKU       *)
(* lookup raised outside the inner try), "skip" (blank SKU), "error" (the  *)
(* inner except) or "item".                                                *)
(***************************************************************************)
\* a loop that keeps only the items the validator accepts
keep_item_if_valid(items, errs, i, item, issues) ==
    IF issues # <<>>
    THEN StepOut("item", items, Append(errs, validation_error(i, issues)), "")
    ELSE StepOut("item", Append(items, item), errs, "")

\* lines 214-223: the item is validated if enabled, then appended
keep_item(items, errs, i, item, issues) ==
    StepOut("item", Append(items, item),
            IF issues # <<>> THEN Append(errs, validation_error(i, issues)) ELSE errs,
            "")

\* a loop without the inner try: the exception leaves the loop
inner_try_missing(validate, items, errs, i, r) ==
    IF r.exc # "" THEN StepOut("abort", items, errs, r.exc)
    ELSE keep_item(items, errs, i, r.v, IF validate THEN validate_item(r.v) ELSE <<>>)

\* lines 194-229: the inner try with r the outcome of building the item
inner_try(validate, items, errs, i, r) ==
    IF r.exc # "" THEN StepOut("error", items, Append(errs, parse_error(i, r.exc)), "")
    ELSE keep_item(items, errs, i, r.v, IF validate THEN validate_item(r.v) ELSE <<>>)

\* lines 190-229 with sku the outcome of row.iloc[COLUMN_MAP['sku']]
with_sku(validate, items, errs, i, row, n, sku) ==
    IF sku.exc # "" THEN StepOut("abort", items, errs, sku.exc)
    ELSE IF blank_sku(sku.v) THEN StepOut("skip", items, errs, "")
    ELSE inner_try(validate, items, errs, i, extract_item(i, row, n, sku.v))

\* the truth value of self.max_items: None and 0 are falsy
max_items_truthy(max_items) == max_items # <<>> /\ max_items[1] # 0

\* a loop that leaves only when the list is longer than max_items
row_step_one_more(validate, max_items, items, errs, i, row, n) ==
    IF max_items_truthy(max_items) /\ Len(items) > max_items[1]
    THEN StepOut("break", items, errs, "")
    ELSE with_sku(validate, items, errs, i, row, n, iloc(row, COLUMN_MAP.sku, n))

row_step(validate, max_items, items, errs, i, row, n) ==
    IF max_items_truthy(max_items) /\ Len(items) >= max_items[1]
    THEN StepOut("break", items, errs, "")
    ELSE with_sku(validate, items, errs, i, row, n, iloc(row, COLUMN_MAP.sku, n))

(***************************************************************************)
(* MetadataExtractor                                                       *)
(***************************************************************************)
EmptyDict == [k \in {} |-> NaNCell]

\* an extractor that reads the last row of the frame
extract_metadata_last_row(rows, n) ==
    IF Len(rows) = 0 THEN EmptyDict
    ELSE LET last_row == rows[Len(rows)]
             present == {key \in DOMAIN header_cols :
                            /\ header_cols[key] < n
                            /\ ~pd_isna(last_row[header_cols[key]])}
         IN  [key \in present |-> last_row[header_cols[key]]]

extract_metadata(rows, n) ==
    IF Len(rows) = 0 THEN EmptyDict
    ELSE LET first_row == rows[1]
             present == {key \in DOMAIN header_cols :
                            /\ header_cols[key] < n
                            /\ ~pd_isna(first_row[header_cols[key]])}
         IN  [key \in present |-> first_row[header_cols[key]]]

(***************************************************************************)
(* Aggregator.  pandas semantics used by aggregate_by_sku:                 *)
(*  - groupby('sku') has sort=True by default: the groups come out in      *)
(*    ascending order of the key (str comparison), one per distinct key;   *)
(*  - 'sum' skips None/NaN and is 0 for a group with no number;            *)
(*  - 'first' is the first non-null value of the group; the text columns   *)
(*    are never null (a missing cell is extracted as ''), so it is the     *)
(*    value of the group's first member;                                   *)
(*  - the frame built by agg() has no unit_price column: the masked        *)
(*    assignment creates it, NaN where the mask is False.                  *)
(***************************************************************************)
SeqRange(seq) == {seq[i] : i \in 1..Len(seq)}

\* grouping of adjacent rows only: one key per run of equal SKUs
group_keys_runs(items) ==
    LET starts == {i \in 1..Len(items) : i = 1 \/ items[i].sku # items[i - 1].sku}
        rank(i) == Cardinality({j \in starts : j < i}) + 1
    IN  [r \in 1..Cardinality(starts) |-> items[CHOOSE i \in starts : rank(i) = r].sku]

\* the group keys latest first appearance first
group_keys_latest_first(items) ==
    LET keys == {it.sku : it \in SeqRange(items)}
        first(k) == SetMin({i \in 1..Len(items) : items[i].sku = k})
        rank(k) == Cardinality({j \in keys : first(j) > first(k)}) + 1
    IN  [i \in 1..Cardinality(keys) |-> CHOOSE k \in keys : rank(k) = i]

\* the group keys in the order groupby emits them
group_keys(items) ==
    LET keys == {it.sku : it \in SeqRange(items)}
        rank(k) == Cardinality({j \in keys : str_lt(j, k)}) + 1
    IN  [i \in 1..Cardinality(keys) |-> CHOOSE k \in keys : rank(k) = i]

\* the members of group k, in original order
group_members(items, k) == SelectSeq(items, LAMBDA it : it.sku = k)

\* a sum that does not skip missing values (skipna=False)
RECURSIVE agg_sum_strict(_, _)
agg_sum_strict(members, f) ==
    IF members = <<>> THEN Num(0)
    ELSE LET rest == agg_sum_strict(Tail(members), f)
             x == Head(members)[f]
         IN  IF IsNum(x) /\ IsNum(rest) THEN f_add(x, rest) ELSE NaN

RECURSIVE agg_sum(_, _)
agg_sum(members, f) ==
    IF members = <<>> THEN Num(0)
    ELSE LET rest == agg_sum(Tail(members), f)
             x == Head(members)[f]
         IN  IF IsNum(x) THEN f_add(x, rest) ELSE rest

\* the last value of the group instead of the first
agg_last(members, f) == members[Len(members)][f]

agg_first(members, f) == Head(members)[f]

\* a unit price computed as quantity / value
recalc_unit_price_inverted(quantity, value) ==
    IF f_gt0(quantity) THEN f_div(quantity, value) ELSE NaN

\* lines 112-115: unit_price of an aggregated row
recalc_unit_price(quantity, value) ==
    IF f_gt0(quantity) THEN f_div(value, quantity) ELSE NaN

\* one row of df.groupby('sku', as_index=False).agg(agg_dict) with unit_price set
aggregate_row(k, members, quantity, value) ==
    [sku |-> k,
     quantity |-> quantity,
     net_weight |-> agg_sum(members, "net_weight"),
     gross_weight |-> agg_sum(members, "gross_weight"),
     value |-> value,
     description |-> agg_first(members, "description"),
     hts |-> agg_first(members, "hts"),
     country_of_origin |-> agg_first(members, "country_of_origin"),
     qty_unit |-> agg_first(members, "qty_unit"),
     unit_price |-> recalc_unit_price(quantity, value)]

aggregate_members(k, members) ==
    aggregate_row(k, members, agg_sum(members, "quantity"), agg_sum(members, "value"))

aggregate_group(items, k) == aggregate_members(k, group_members(items, k))

\* a numbering that starts at 0 (range(len(aggregated)))
with_line_number_from_zero(g, i) ==
    [sku |-> g.sku, quantity |-> g.quantity, net_weight |-> g.net_weight,
     gross_weight |-> g.gross_weight, value |-> g.value, description |-> g.description,
     hts |-> g.hts, country_of_origin |-> g.country_of_origin, qty_unit |-> g.qty_unit,
     unit_price |-> g.unit_price, line_number |-> i - 1]

\* lines 117-118: the line_number column added to an aggregated row
with_line_number(g, i) ==
    [sku |-> g.sku, quantity |-> g.quantity, net_weight |-> g.net_weight,
     gross_weight |-> g.gross_weight, value |-> g.value, description |-> g.description,
     hts |-> g.hts, country_of_origin |-> g.country_of_origin, qty_unit |-> g.qty_unit,
     unit_price |-> g.unit_price, line_number |-> i]

\* the aggregated rows for the keys in emission order, renumbered
aggregate_keys(items, keys) ==
    [i \in 1..Len(keys) |-> with_line_number(aggregate_group(items, keys[i]), i)]

\* AcuityInvoiceAgent.aggregate_by_sku
aggregate_by_sku(items) ==
    IF items = <<>> THEN <<>> ELSE aggregate_keys(items, group_keys(items))

\* the items of acuity_invoice_parser.py carry no line_number and five columns
\* that are always ''
ParserExtra == {"no_of_package", "package_type", "container_number", "po_number",
                "po_reference"}

parser_item(it) ==
    [f \in (DOMAIN it \ {"line_number"}) \cup ParserExtra |->
        IF f \in ParserExtra THEN <<>> ELSE it[f]]

\* the five extra columns of an aggregated row of the parser module ('first')
with_parser_extra(g, members) ==
    [f \in DOMAIN g \cup ParserExtra |->
        IF f \in ParserExtra THEN agg_first(members, f) ELSE g[f]]

parser_aggregate_keys(items, keys) ==
    [i \in 1..Len(keys) |->
        with_parser_extra(aggregate_group(items, keys[i]), group_members(items, keys[i]))]

\* acuity_invoice_parser.aggregate_by_sku
parser_aggregate_by_sku(items) ==
    IF items = <<>> THEN <<>> ELSE parser_aggregate_keys(items, group_keys(items))

(***************************************************************************)
(* SummaryGenerator                                                        *)
(***************************************************************************)
\* item.get(f, 0) or 0
or_zero(x) == IF x = Null \/ (IsNum(x) /\ x.n = 0) THEN Num(0) ELSE x

RECURSIVE py_sum(_, _)
py_sum(items, f) ==
    IF items = <<>> THEN Num(0)
    ELSE LET rest == py_sum(Tail(items), f)
             x == or_zero(Head(items)[f])
         IN  IF IsNum(x) /\ IsNum(rest) THEN f_add(x, rest) ELSE NaN

\* round(x, 2): the nearest multiple of 1/100, ties to even
round_scaled(q, tie) == Frac(IF tie /\ q % 2 = 1 THEN q - 1 ELSE q, 100)

round2(x) ==
    IF ~IsNum(x) THEN x
    ELSE round_scaled((200 * x.n + x.d) \div (2 * x.d), (200 * x.n + x.d) % (2 * x.d) = 0)

generate_summary(items) ==
    IF items = <<>> THEN EmptyDict
    ELSE [total_items |-> Len(items),
          total_quantity |-> round2(py_sum(items, "quantity")),
          total_value |-> round2(py_sum(items, "value")),
          total_weight_kg |-> round2(py_sum(items, "net_weight")),
          unique_skus |-> Cardinality({it.sku : it \in SeqRange(items)}),
          unique_hts_codes |->
              Cardinality({it.hts : it \in {j \in SeqRange(items) : j.hts # <<>>}}),
          unique_origins |->
              Cardinality({it.country_of_origin :
                              it \in {j \in SeqRange(items) : j.country_of_origin # <<>>}})]

(***************************************************************************)
(* The rows the model reads: a well-formed row and the rows that differ    *)
(* from it in one cell.                                                    *)
(***************************************************************************)
MaxRows == 2

NotANumber == <<"N", "/", "A">>

BaseRow == [p \in Positions |->
    CASE p = COLUMN_MAP.sku -> StrCell(<<"b">>)
      [] p = COLUMN_MAP.description -> StrCell(<<"x">>)
      [] p = COLUMN_MAP.hts -> StrCell(<<"8", "5">>)
      [] p = COLUMN_MAP.country_of_origin -> StrCell(<<"M", "E", "X">>)
      [] p = COLUMN_MAP.quantity -> NumCell(2)
      [] p = COLUMN_MAP.qty_unit -> StrCell(<<"P", "Z", "S">>)
      [] p = COLUMN_MAP.net_weight -> NumCell(1)
      [] p = COLUMN_MAP.gross_weight -> NumCell(2)
      [] p = COLUMN_MAP.unit_price -> NumCell(3)
      [] p = COLUMN_MAP.value -> NumCell(6)
      [] p = header_cols.invoice_number -> NumCell(7)
      [] p = header_cols.pedimento -> StrCell(<<"p">>)
      [] p = header_cols.vendor -> StrCell(<<"v">>)
      [] p = header_cols.total_value -> NumCell(6)
      [] OTHER -> NaNCell]

Deviations == {
    <<COLUMN_MAP.sku, NaNCell>>,
    <<COLUMN_MAP.sku, StrCell(<<" ">>)>>,
    <<COLUMN_MAP.sku, StrCell(<<"B">>)>>,
    <<COLUMN_MAP.sku, StrCell(<<" ", "b", " ">>)>>,
    <<COLUMN_MAP.hts, NaNCell>>,
    <<COLUMN_MAP.country_of_origin, StrCell(<<"u", "s">>)>>,
    <<COLUMN_MAP.quantity, StrCell(NotANumber)>>,
    <<COLUMN_MAP.quantity, NumCell(0)>>,
    <<COLUMN_MAP.quantity, BigCell>>,
    <<COLUMN_MAP.net_weight, NaNCell>>,
    <<COLUMN_MAP.value, NumCell(-1)>>,
    <<header_cols.invoice_number, NaNCell>> }

RowSet == {BaseRow} \cup {[BaseRow EXCEPT ![dev[1]] = dev[2]] : dev \in Deviations}

\* rows for the numeric cells: each of the five numeric columns missing and
\* holding text that is no number, a row without SKU and a number float() rejects
CellDeviations == {
    <<COLUMN_MAP.quantity, NaNCell>>,
    <<COLUMN_MAP.quantity, StrCell(NotANumber)>>,
    <<COLUMN_MAP.quantity, StrCell(<<" ", "1", "0">>)>>,
    <<COLUMN_MAP.net_weight, NaNCell>>,
    <<COLUMN_MAP.net_weight, StrCell(NotANumber)>>,
    <<COLUMN_MAP.gross_weight, NaNCell>>,
    <<COLUMN_MAP.gross_weight, StrCell(NotANumber)>>,
    <<COLUMN_MAP.unit_price, NaNCell>>,
    <<COLUMN_MAP.unit_price, StrCell(NotANumber)>>,
    <<COLUMN_MAP.value, NaNCell>>,
    <<COLUMN_MAP.value, StrCell(NotANumber)>>,
    <<COLUMN_MAP.value, BigCell>>,
    <<COLUMN_MAP.sku, NaNCell>> }

CellRowSet == {[BaseRow EXCEPT ![dev[1]] = dev[2]] : dev \in CellDeviations}

\* column counts: too narrow for the SKU column, too narrow for the HTS column,
\* and the full layout
Widths == {COLUMN_MAP.sku, COLUMN_MAP.hts, COLUMN_MAP.hts + 1}

\* values of config.get('max_items', None): None, 0 and 1
MaxItemsChoices == {<<>>, <<0>>, <<1>>}

(***************************************************************************)
(* parse_file as a state machine                                           *)
(***************************************************************************)
\* the dictionaries parse_file returns; the timestamp entry is the clock's and
\* is left out
success_result(items, metadata, summary, errs, agg) ==
    [success |-> TRUE, items |-> items, metadata |-> metadata, summary |-> summary,
     errors |-> errs, aggregated |-> agg]

\* a failure that hands back the rows collected so far
failure_result_partial(exc) == [success |-> FALSE, error |-> exc, items |-> line_items]

failure_result(exc) == [success |-> FALSE, error |-> exc]

FnIdle == fn_arg = <<>> /\ fn_ret = <<>> /\ fn_pc = "idle"

\* the state before parse_file is called on a source whose rows are in rowset
InitFrame(rowset, widths) ==
    /\ source_ok \in BOOLEAN
    /\ IF source_ok
       THEN /\ df \in UNION {[1..len -> rowset] : len \in 0..MaxRows}
            /\ ncols \in widths
       ELSE df = <<>> /\ ncols = 0
    /\ self_validate \in BOOLEAN
    /\ self_max_items \in MaxItemsChoices
    /\ aggregate \in BOOLEAN
    /\ pc = "start"
    /\ idx = 0
    /\ line_items = <<>>
    /\ errors = <<>>
    /\ self_metadata = EmptyDict
    /\ result = EmptyDict

InitParse(rowset) == InitFrame(rowset, Widths)

InitWith(rowset) == InitParse(rowset) /\ FnIdle

Init == InitWith(RowSet)

\* the current iteration of the row loop
Step == row_step(self_validate, self_max_items, line_items, errors, idx, df[idx + 1], ncols)

\* lines 175-182: the file is read, the metadata extracted, the lists created
ReadExcel ==
    /\ pc = "start" /\ source_ok
    /\ self_metadata' = extract_metadata(df, ncols)
    /\ line_items' = <<>>
    /\ errors' = <<>>
    /\ idx' = 0
    /\ pc' = "loop"
    /\ UNCHANGED <<source_ok, df, ncols, self_validate, self_max_items, aggregate, result>>
    /\ UNCHANGED fn_vars

\* line 175 raises: the outer except returns the failure envelope
ReadExcelFails ==
    /\ pc = "start" /\ ~source_ok
    /\ result' = failure_result("read_excel")
    /\ pc' = "done"
    /\ UNCHANGED <<source_ok, df, ncols, self_validate, self_max_items, aggregate, idx,
                   line_items, errors, self_metadata>>
    /\ UNCHANGED fn_vars

\* lines 186-187: max_items reached, the loop is left
RowBreak ==
    /\ pc = "loop" /\ idx < Len(df)
    /\ Step.kind = "break"
    /\ pc' = "finish"
    /\ UNCHANGED <<source_ok, df, ncols, self_validate, self_max_items, aggregate, idx,
                   line_items, errors, self_metadata, result>>
    /\ UNCHANGED fn_vars

\* the outer except of lines 248-253 after a raise in the loop
AbortWith(st) ==
    /\ st.kind = "abort"
    /\ result' = failure_result(st.exc)
    /\ pc' = "done"
    /\ UNCHANGED <<source_ok, df, ncols, self_validate, self_max_items, aggregate, idx,
                   line_items, errors, self_metadata>>
    /\ UNCHANGED fn_vars

\* line 190 raises outside the inner try: the outer except returns the failure
RowAbort == pc = "loop" /\ idx < Len(df) /\ AbortWith(Step)

\* the iteration ends with outcome st of the given kind and the loop goes on
NextRow(st, kind) ==
    /\ st.kind = kind
    /\ line_items' = st.line_items
    /\ errors' = st.errors
    /\ idx' = idx + 1
    /\ UNCHANGED <<source_ok, df, ncols, self_validate, self_max_items, aggregate, pc,
                   self_metadata, result>>
    /\ UNCHANGED fn_vars

\* lines 191-192: a row without SKU is passed over (continue)
RowSkip == pc = "loop" /\ idx < Len(df) /\ NextRow(Step, "skip")

\* lines 194-223: the item is extracted, validated and appended
RowItem == pc = "loop" /\ idx < Len(df) /\ NextRow(Step, "item")

\* lines 225-229: the inner except records the row and the loop goes on
RowError == pc = "loop" /\ idx < Len(df) /\ NextRow(Step, "error")

\* df.iterrows() is exhausted
LoopEnd ==
    /\ pc = "loop" /\ idx = Len(df)
    /\ pc' = "finish"
    /\ UNCHANGED <<source_ok, df, ncols, self_validate, self_max_items, aggregate, idx,
                   line_items, errors, self_metadata, result>>
    /\ UNCHANGED fn_vars

\* lines 231-246: aggregation, summary and the returned dictionary
final_items(items, agg) == IF agg THEN aggregate_by_sku(items) ELSE items

\* the dictionary returned for the final list of items
return_success(items, metadata, errs, agg) ==
    success_result(items, metadata, generate_summary(items), errs, agg)

FinishWith(items) ==
    /\ line_items' = items
    /\ result' = return_success(items, self_metadata, errors, aggregate)
    /\ pc' = "done"
    /\ UNCHANGED <<source_ok, df, ncols, self_validate, self_max_items, aggregate, idx,
                   errors, self_metadata>>
    /\ UNCHANGED fn_vars

Finish == pc = "finish" /\ FinishWith(final_items(line_items, aggregate))

Next ==
    \/ ReadExcel
    \/ ReadExcelFails
    \/ RowBreak
    \/ RowAbort
    \/ RowSkip
    \/ RowItem
    \/ RowError
    \/ LoopEnd
    \/ Finish

Spec == Init /\ [][Next]_vars

\* the same program on the rows that vary the numeric cells
InitCells == InitWith(CellRowSet)

SpecCells == InitCells /\ [][Next]_vars

(***************************************************************************)
(* parse_file as a function of its inputs: the row loop folded over the    *)
(* rows, then lines 231-253.                                               *)
(***************************************************************************)
RECURSIVE run_rows(_, _, _, _, _, _, _)
RECURSIVE continue_rows(_, _, _, _, _, _)
run_rows(validate, max_items, rows, n, i, items, errs) ==
    IF i = Len(rows) THEN StepOut("end", items, errs, "")
    ELSE continue_rows(validate, max_items, rows, n, i,
                       row_step(validate, max_items, items, errs, i, rows[i + 1], n))

continue_rows(validate, max_items, rows, n, i, st) ==
    IF st.kind \in {"break", "abort"} THEN st
    ELSE run_rows(validate, max_items, rows, n, i + 1, st.line_items, st.errors)

after_loop(st, metadata, agg) ==
    IF st.kind = "abort" THEN failure_result(st.exc)
    ELSE return_success(final_items(st.line_items, agg), metadata, st.errors, agg)

parse_file(ok, rows, n, validate, max_items, agg) ==
    IF ~ok THEN failure_result("read_excel")
    ELSE after_loop(run_rows(validate, max_items, rows, n, 0, <<>>, <<>>),
                    extract_metadata(rows, n), agg)

\* parse_file_async runs parse_file on the default executor and returns its result
parse_file_async(ok, rows, n, validate, max_items, agg) ==
    parse_file(ok, rows, n, validate, max_items, agg)

(***************************************************************************)
(* Properties of parse_file                                                *)
(***************************************************************************)
FullKeys == {"success", "items", "metadata", "summary", "errors", "aggregated"}

FailureKeys == {"success", "error"}

Returned == pc = "done"

Succeeded == pc = "done" /\ result.success

\* the source cannot be read, or the SKU lookup of the first row raises outside
\* the inner try (the frame has rows and no SKU column)
FileLevelFailure == ~source_ok \/ (Len(df) > 0 /\ ncols <= COLUMN_MAP.sku)

\* C1: a file-level failure makes parse_file (and parse_file_async) return
\* {success: False, error} without raising and without an items list; a parse
\* ends with the full result or with the failure envelope, never a partial one.
C1_FailureIsAtomic ==
    /\ pc \in {"start", "loop", "finish", "done"}
    /\ Returned =>
        /\ IF FileLevelFailure
           THEN result.success = FALSE /\ DOMAIN result = FailureKeys
           ELSE result.success = TRUE /\ DOMAIN result = FullKeys
        /\ result = parse_file_async(source_ok, df, ncols, self_validate,
                                     self_max_items, aggregate)

\* C1 witness: a readable source whose row loop raised, and the envelope returned
C1_Witness == Returned /\ source_ok /\ Len(df) = MaxRows /\ ~result.success

\* a cell that is missing or blank after trimming
BlankCell(c) == c.k = "nan" \/ (c.k = "str" /\ \A j \in 1..Len(c.s) : c.s[j] = " ")

BlankRow(row) == BlankCell(row[COLUMN_MAP.sku])

\* the list line_items holds the items before aggregation
BeforeAggregation == pc \in {"loop", "finish"} \/ (Succeeded /\ ~aggregate)

HasItem(line) == \E j \in 1..Len(line_items) : line_items[j].line_number = line

HasError(line) == \E j \in 1..Len(errors) : errors[j].line = line

\* C2: a row whose SKU is missing or blank after trimming produces no item and
\* no errors entry; the number of items is at most the number of rows, and
\* strictly less when a blank-SKU row is present.
C2_BlankSkuSkipped ==
    BeforeAggregation =>
        /\ \A i \in 0..(Len(df) - 1) :
              BlankRow(df[i + 1]) => ~HasItem(i + 1) /\ ~HasError(i + 1)
        /\ Len(line_items) <= Len(df)
        /\ (\E i \in 1..Len(df) : BlankRow(df[i])) => Len(line_items) < Len(df)

\* C2 witness: a finished parse of a blank-SKU row (text of blanks) and a row
\* that gave an item
C2_Witness ==
    /\ Succeeded /\ ~aggregate /\ Len(line_items) = 1 /\ Len(df) = 2
    /\ df[1][COLUMN_MAP.sku].k = "str" /\ BlankRow(df[1])

\* the rows of the frame whose extraction succeeds: every column present, a SKU,
\* and no number that float() rejects
NumericColumns == {"quantity", "net_weight", "gross_weight", "unit_price", "value"}

RaisesInTry(row) ==
    \/ ncols <= COLUMN_MAP.hts
    \/ \E f \in NumericColumns : row[COLUMN_MAP[f]].k = "bigint"

Extractable(row) == ncols > COLUMN_MAP.sku /\ ~BlankRow(row) /\ ~RaisesInTry(row)

ItemOf(i) == extract_item(i, df[i + 1], ncols, df[i + 1][COLUMN_MAP.sku]).v

\* C3: validation is advisory: every row with a SKU whose extraction succeeds is
\* in items, unchanged, whether or not the validator reports issues for it, and
\* the result with validation switched the other way differs in errors only.
C3_ValidationAdvisory ==
    /\ BeforeAggregation =>
          \A i \in 0..(idx - 1) :
              Extractable(df[i + 1]) =>
                  \E j \in 1..Len(line_items) : line_items[j] = ItemOf(i)
    /\ Succeeded =>
          [result EXCEPT !.errors = <<>>] =
          [parse_file(source_ok, df, ncols, ~self_validate, self_max_items, aggregate)
              EXCEPT !.errors = <<>>]

\* C3 witness: validation is on, the validator reported issues for line 1, and
\* the item of line 1 is in the returned items
C3_Witness ==
    /\ Succeeded /\ ~aggregate /\ self_validate
    /\ \E e \in 1..Len(result.errors) :
          /\ result.errors[e].line = 1
          /\ "errors" \in DOMAIN result.errors[e]
    /\ \E j \in 1..Len(result.items) : result.items[j].line_number = 1

\* the frame with the rows that raise in the inner try emptied of their SKU
WithoutRaising ==
    [j \in 1..Len(df) |->
        IF ~BlankRow(df[j]) /\ RaisesInTry(df[j])
        THEN [df[j] EXCEPT ![COLUMN_MAP.sku] = NaNCell]
        ELSE df[j]]

IsParseError(e) == "error" \in DOMAIN e

\* C4: a row whose extraction raises inside the row loop is recorded in errors
\* as a parse error with its line number and is absent from items; the later
\* rows are still processed and the parse succeeds: items, summary and the
\* other errors are those of the same source without the raising rows.
C4_RowErrorIsolated ==
    /\ BeforeAggregation /\ ncols > COLUMN_MAP.sku =>
          \A i \in 0..(idx - 1) :
              (~BlankRow(df[i + 1]) /\ RaisesInTry(df[i + 1])) =>
                  /\ ~HasItem(i + 1)
                  /\ \E e \in 1..Len(errors) :
                        errors[e].line = i + 1 /\ IsParseError(errors[e])
    /\ (Returned /\ ~FileLevelFailure) =>
          /\ result.success
          /\ ~max_items_truthy(self_max_items) => idx = Len(df)
    /\ Succeeded =>
          [result EXCEPT !.errors = SelectSeq(@, LAMBDA e : ~IsParseError(e))] =
          parse_file(source_ok, WithoutRaising, ncols, self_validate, self_max_items,
                     aggregate)

\* C4 witness: line 1 raised and is recorded, line 2 gave an item
C4_Witness ==
    /\ Succeeded /\ ~aggregate
    /\ \E e \in 1..Len(result.errors) :
          result.errors[e].line = 1 /\ IsParseError(result.errors[e])
    /\ \E j \in 1..Len(result.items) : result.items[j].line_number = 2

\* a cell holding text that is no number
NotNumeric(c) ==
    c.k = "str" /\ \E j \in 1..Len(c.s) : c.s[j] # " " /\ ~Occurs(Digits, c.s[j])

Unusable(c) == c.k = "nan" \/ NotNumeric(c)

IssuesFor(line) ==
    UNION {SeqRange(errors[e].errors) :
              e \in {k \in 1..Len(errors) : errors[k].line = line /\ ~IsParseError(errors[k])}}

\* C5: a missing or non-numeric numeric cell gives null for that field and never
\* an exception; the row still gives an item whose other fields are those it
\* would have with a valid cell there; a non-numeric quantity is reported as
\* 'Missing quantity' for the line of the item.
C5_FieldFailureIsolated ==
    BeforeAggregation =>
        \A i \in 0..(idx - 1) : \A f \in NumericColumns :
            (Extractable(df[i + 1]) /\ Unusable(df[i + 1][COLUMN_MAP[f]])) =>
                /\ \E j \in 1..Len(line_items) :
                      /\ line_items[j].line_number = i + 1
                      /\ line_items[j][f] = Null
                      /\ [line_items[j] EXCEPT ![f] = Num(1)] =
                         extract_item(i, [df[i + 1] EXCEPT ![COLUMN_MAP[f]] = NumCell(1)],
                                      ncols, df[i + 1][COLUMN_MAP.sku]).v
                /\ \A e \in 1..Len(errors) :
                      errors[e].line = i + 1 => ~IsParseError(errors[e])
                /\ (f = "quantity" /\ self_validate) =>
                      "Missing quantity" \in IssuesFor(i + 1)

\* C5 witness: the quantity of row 1 is the text N/A; its item is returned with
\* a null quantity and the issue is reported
C5_Witness ==
    /\ Succeeded /\ ~aggregate /\ self_validate
    /\ Len(df) >= 1 /\ Len(result.items) >= 1
    /\ df[1][COLUMN_MAP.quantity] = StrCell(NotANumber)
    /\ result.items[1].line_number = 1 /\ result.items[1].quantity = Null
    /\ "Missing quantity" \in IssuesFor(1)

(***************************************************************************)
(* The validator and the aggregator called on their own                    *)
(***************************************************************************)
ParseIdle ==
    /\ source_ok = FALSE /\ df = <<>> /\ ncols = 0
    /\ self_validate = TRUE /\ self_max_items = <<>> /\ aggregate = FALSE
    /\ pc = "off" /\ idx = 0 /\ line_items = <<>> /\ errors = <<>>
    /\ self_metadata = EmptyDict /\ result = EmptyDict

FloatChoices == {Null, Num(-1), Num(0), Num(1)}

ValidateItems ==
    {[line_number |-> 1, sku |-> sku, description |-> <<>>, hts |-> hts,
      country_of_origin |-> country, quantity |-> quantity, qty_unit |-> <<>>,
      net_weight |-> Null, gross_weight |-> Null, unit_price |-> Null, value |-> value] :
        sku \in {<<>>, <<"b">>}, hts \in {<<>>, <<"8", "5">>},
        country \in {<<>>, <<"M", "X">>}, quantity \in FloatChoices,
        value \in FloatChoices}

InitValidate == ParseIdle /\ fn_arg \in ValidateItems /\ fn_ret = <<>> /\ fn_pc = "call"

CallValidate ==
    /\ fn_pc = "call"
    /\ fn_ret' = validate_item(fn_arg)
    /\ fn_pc' = "ret"
    /\ UNCHANGED fn_arg
    /\ UNCHANGED parse_vars

SpecValidate == InitValidate /\ [][CallValidate]_vars

Reported(msg) == msg \in SeqRange(fn_ret)

ValidationMessages == {"Missing SKU", "Missing HTS code", "Missing country of origin",
                       "Missing quantity", "Invalid quantity (must be > 0)",
                       "Missing value", "Invalid value (must be >= 0)"}

\* C6: validate returns exactly the issues of five independent rules: missing
\* SKU iff sku is empty, missing HTS iff hts is empty, missing origin iff the
\* origin is empty, quantity missing iff null and invalid iff not null and <= 0,
\* value missing iff null and invalid iff not null and < 0.
C6_ValidationRules ==
    fn_pc = "ret" =>
        /\ SeqRange(fn_ret) \subseteq ValidationMessages
        /\ Len(fn_ret) = Cardinality(SeqRange(fn_ret))
        /\ Reported("Missing SKU") <=> fn_arg.sku = <<>>
        /\ Reported("Missing HTS code") <=> fn_arg.hts = <<>>
        /\ Reported("Missing country of origin") <=> fn_arg.country_of_origin = <<>>
        /\ Reported("Missing quantity") <=> fn_arg.quantity = Null
        /\ Reported("Invalid quantity (must be > 0)") <=>
              (fn_arg.quantity # Null /\ fn_arg.quantity.n <= 0)
        /\ Reported("Missing value") <=> fn_arg.value = Null
        /\ Reported("Invalid value (must be >= 0)") <=>
              (fn_arg.value # Null /\ fn_arg.value.n < 0)

\* C6 witness: quantity 0 is reported invalid and value 0 is not reported
C6_Witness ==
    /\ fn_pc = "ret" /\ fn_arg.quantity = Num(0) /\ fn_arg.value = Num(0)
    /\ fn_ret = <<"Missing SKU", "Invalid quantity (must be > 0)">>

\* the lists handed to aggregate_by_sku: at most MaxAggItems items
MaxAggItems == 3

AggSkus == {<<"b">>, <<"B">>, <<"b", "1">>}

AggShapes == {
    [description |-> <<"x">>, hts |-> <<"8", "5">>, country_of_origin |-> <<"M", "X">>,
     qty_unit |-> <<"P", "C", "S">>, quantity |-> Num(2), net_weight |-> Num(1),
     gross_weight |-> Num(2), unit_price |-> Num(3), value |-> Num(6)],
    [description |-> <<>>, hts |-> <<>>, country_of_origin |-> <<>>,
     qty_unit |-> <<>>, quantity |-> Null, net_weight |-> Null,
     gross_weight |-> Null, unit_price |-> Null, value |-> Null],
    [description |-> <<"y">>, hts |-> <<"9">>, country_of_origin |-> <<"U", "S">>,
     qty_unit |-> <<"K", "G">>, quantity |-> Num(-2), net_weight |-> Num(3),
     gross_weight |-> Null, unit_price |-> Num(7), value |-> Num(1)],
    [description |-> <<"x">>, hts |-> <<>>, country_of_origin |-> <<"M", "X">>,
     qty_unit |-> <<"P", "C", "S">>, quantity |-> Num(3), net_weight |-> Null,
     gross_weight |-> Num(1), unit_price |-> Null, value |-> Num(4)] }

\* the item of shape sh with the given SKU, extracted from row i - 1 of a frame
AggItem(sku, sh, i) ==
    [line_number |-> 2 * i, sku |-> sku, description |-> sh.description, hts |-> sh.hts,
     country_of_origin |-> sh.country_of_origin, quantity |-> sh.quantity,
     qty_unit |-> sh.qty_unit, net_weight |-> sh.net_weight,
     gross_weight |-> sh.gross_weight, unit_price |-> sh.unit_price, value |-> sh.value]

AggLists(n) ==
    UNION {{[i \in 1..len |-> AggItem(ks[i], shs[i], i)] :
               ks \in [1..len -> AggSkus], shs \in [1..len -> AggShapes]} :
           len \in 0..n}

\* the same list as the two modules hold it
AggInput(items) == [agent |-> items, parser |-> [i \in 1..Len(items) |-> parser_item(items[i])]]

InitAggregate ==
    /\ ParseIdle
    /\ fn_arg \in {AggInput(items) : items \in AggLists(MaxAggItems)}
    /\ fn_ret = <<>>
    /\ fn_pc = "call"

\* both aggregate_by_sku functions applied to the argument
aggregate_both(arg) ==
    [agent |-> aggregate_by_sku(arg.agent), parser |-> parser_aggregate_by_sku(arg.parser)]

CallAggregate ==
    /\ fn_pc = "call"
    /\ fn_ret' = aggregate_both(fn_arg)
    /\ fn_pc' = "ret"
    /\ UNCHANGED fn_arg
    /\ UNCHANGED parse_vars

\* the aggregated list is aggregated again
CallAggregateAgain ==
    /\ fn_pc = "ret"
    /\ fn_arg' = fn_ret
    /\ fn_ret' = aggregate_both(fn_ret)
    /\ fn_pc' = "ret2"
    /\ UNCHANGED parse_vars

NextAggregate == CallAggregate \/ CallAggregateAgain

SpecAggregate == InitAggregate /\ [][NextAggregate]_vars

AggReturned == fn_pc \in {"ret", "ret2"}

Modules == {"agent", "parser"}

SkusOf(items) == {items[i].sku : i \in 1..Len(items)}

\* C7: the output of aggregate has exactly one item per distinct SKU of the
\* input: no two output items share a SKU, every input SKU appears, and no
\* other SKU does.
C7_OneItemPerSku ==
    AggReturned =>
        \A m \in Modules :
            /\ \A a, b \in 1..Len(fn_ret[m]) :
                  fn_ret[m][a].sku = fn_ret[m][b].sku => a = b
            /\ SkusOf(fn_ret[m]) = SkusOf(fn_arg[m])
            /\ Len(fn_ret[m]) = Cardinality(SkusOf(fn_arg[m]))

\* C7 witness: three items of two SKUs, the equal ones not adjacent, give two
C7_Witness ==
    /\ fn_pc = "ret" /\ Len(fn_arg.agent) = 3 /\ Len(fn_ret.agent) = 2
    /\ fn_arg.agent[1].sku = fn_arg.agent[3].sku

SummedColumns == {"quantity", "net_weight", "gross_weight", "value"}

IndicesOf(items, k) == {i \in 1..Len(items) : items[i].sku = k}

\* the sum of column f over the items at the indices in I, null counted as 0
RECURSIVE SumAt(_, _, _)
SumAt(items, I, f) ==
    IF I = {} THEN 0
    ELSE LET i == CHOOSE j \in I : TRUE
         IN  (IF IsNum(items[i][f]) THEN items[i][f].n ELSE 0) + SumAt(items, I \ {i}, f)

\* C8: each aggregated item's quantity, net_weight, gross_weight and value are
\* the sums of the field over the input items of its SKU, null counted as 0, so
\* the total of each field is the same before and after aggregation.
C8_SumsPreserved ==
    AggReturned =>
        \A m \in Modules : \A f \in SummedColumns :
            /\ \A g \in 1..Len(fn_ret[m]) :
                  fn_ret[m][g][f] =
                  Num(SumAt(fn_arg[m], IndicesOf(fn_arg[m], fn_ret[m][g].sku), f))
            /\ SumAt(fn_ret[m], 1..Len(fn_ret[m]), f) =
               SumAt(fn_arg[m], 1..Len(fn_arg[m]), f)

\* C8 witness: a group of a null and a number, and a group of numbers
C8_Witness ==
    /\ fn_pc = "ret" /\ Len(fn_arg.agent) = 3 /\ Len(fn_ret.agent) = 1
    /\ fn_arg.agent[1].value = Null /\ fn_arg.agent[2].value = Num(6)
    /\ fn_arg.agent[3].value = Num(1) /\ fn_ret.agent[1].value = Num(7)

FirstWinsColumns == {"description", "hts", "country_of_origin", "qty_unit"}

FirstIndex(items, k) == SetMin(IndicesOf(items, k))

\* C9: the aggregated item's description, hts, country_of_origin and qty_unit
\* are those of the first input item of its SKU, also when that value is the
\* empty string and a later item of the SKU has a non-empty one.
C9_FirstWins ==
    AggReturned =>
        \A m \in Modules : \A f \in FirstWinsColumns : \A g \in 1..Len(fn_ret[m]) :
            fn_ret[m][g][f] = fn_arg[m][FirstIndex(fn_arg[m], fn_ret[m][g].sku)][f]

\* C9 witness: the first item of the group has an empty description, a later
\* one has not, and the empty one is kept
C9_Witness ==
    /\ fn_pc = "ret" /\ Len(fn_arg.agent) = 2 /\ Len(fn_ret.agent) = 1
    /\ fn_arg.agent[1].description = <<>> /\ fn_arg.agent[2].description # <<>>
    /\ fn_ret.agent[1].description = <<>>

\* C10: the aggregated items are emitted in the order in which their SKUs first
\* appear in the input: the item for a precedes the item for b iff the first
\* input item with SKU a precedes the first input item with SKU b.
C10_FirstAppearanceOrder ==
    AggReturned =>
        \A m \in Modules : \A a, b \in 1..Len(fn_ret[m]) :
            a < b <=> FirstIndex(fn_arg[m], fn_ret[m][a].sku) <
                      FirstIndex(fn_arg[m], fn_ret[m][b].sku)

\* C11: the line_number fields of the aggregated items are 1, 2, ..., n in
\* emission order, whatever line numbers the input items carried.
C11_LineNumbersSequential ==
    AggReturned =>
        \A g \in 1..Len(fn_ret.agent) : fn_ret.agent[g].line_number = g

\* C11 witness: items numbered 2, 4, 6 of two SKUs come out numbered 1, 2
C11_Witness ==
    /\ fn_pc = "ret" /\ Len(fn_arg.agent) = 3 /\ Len(fn_ret.agent) = 2
    /\ fn_arg.agent[1].line_number = 2 /\ fn_arg.agent[3].line_number = 6
    /\ fn_ret.agent[1].line_number = 1 /\ fn_ret.agent[2].line_number = 2

\* the unit_price values of the input items with SKU k
MemberUnitPrices(items, k) == {items[i].unit_price : i \in IndicesOf(items, k)}

\* C12: for every SKU group whose summed quantity is strictly positive the
\* aggregated unit_price is the summed value divided by the summed quantity,
\* whatever the unit_price values of the members.
C12_UnitPriceRecomputed ==
    AggReturned =>
        \A m \in Modules : \A g \in 1..Len(fn_ret[m]) :
            LET I == IndicesOf(fn_arg[m], fn_ret[m][g].sku)
            IN  SumAt(fn_arg[m], I, "quantity") > 0 =>
                    fn_ret[m][g].unit_price =
                    Frac(SumAt(fn_arg[m], I, "value"), SumAt(fn_arg[m], I, "quantity"))

\* C12 witness: quantities 2, 2, 3 with values 6, 6, 4 and unit prices 3, 3 and
\* null give quantity 7, value 16 and unit_price 16/7 in both modules
C12_Witness ==
    /\ fn_pc = "ret" /\ Len(fn_arg.agent) = 3 /\ Len(fn_ret.agent) = 1
    /\ MemberUnitPrices(fn_arg.agent, fn_ret.agent[1].sku) = {Num(3), Null}
    /\ fn_ret.agent[1].quantity = Num(7) /\ fn_ret.agent[1].value = Num(16)
    /\ fn_ret.agent[1].unit_price = Frac(16, 7)
    /\ fn_ret.parser[1].unit_price = Frac(16, 7)

\* C13: for every SKU group whose summed quantity is zero or negative (or all
\* null) the aggregated item carries the unit_price a member of the group had
\* before aggregation, not a recomputed and not a missing/NaN value.
C13_PriorUnitPriceKept ==
    AggReturned =>
        \A m \in Modules : \A g \in 1..Len(fn_ret[m]) :
            LET I == IndicesOf(fn_arg[m], fn_ret[m][g].sku)
            IN  SumAt(fn_arg[m], I, "quantity") <= 0 =>
                    /\ fn_ret[m][g].unit_price \in MemberUnitPrices(fn_arg[m], fn_ret[m][g].sku)
                    /\ fn_ret[m][g].unit_price # NaN

DistinctNonEmpty(items, f) == Cardinality({items[i][f] : i \in 1..Len(items)} \ {<<>>})

\* the reduction of an item list: its length, the sums of quantity, value and
\* net_weight with null counted as 0, and the distinct non-empty SKU, HTS and
\* origin counts
ReductionOf(items) ==
    [total_items |-> Len(items),
     total_quantity |-> Num(SumAt(items, 1..Len(items), "quantity")),
     total_value |-> Num(SumAt(items, 1..Len(items), "value")),
     total_weight_kg |-> Num(SumAt(items, 1..Len(items), "net_weight")),
     unique_skus |-> DistinctNonEmpty(items, "sku"),
     unique_hts_codes |-> DistinctNonEmpty(items, "hts"),
     unique_origins |-> DistinctNonEmpty(items, "country_of_origin")]

\* C15: the summary of a ParseResult is the reduction of its final items list
\* (the aggregated list when aggregate is true): total_items is the length, the
\* totals are the sums with null as 0, the unique counts are the numbers of
\* distinct non-empty values.
C15_SummaryIsReduction ==
    Succeeded => result.summary = ReductionOf(result.items)

\* C16: for an empty final item list the summary has every numeric total 0 and
\* every distinct count 0.
C16_EmptySummaryAllZero ==
    (Succeeded /\ result.items = <<>>) =>
        /\ DOMAIN result.summary =
              {"total_items", "total_quantity", "total_value", "total_weight_kg",
               "unique_skus", "unique_hts_codes", "unique_origins"}
        /\ result.summary.total_items = 0
        /\ result.summary.total_quantity = Num(0)
        /\ result.summary.total_value = Num(0)
        /\ result.summary.total_weight_kg = Num(0)
        /\ result.summary.unique_skus = 0
        /\ result.summary.unique_hts_codes = 0
        /\ result.summary.unique_origins = 0

(***************************************************************************)
(* convert_country_code called on its own, and on its own result           *)
(***************************************************************************)
\* the longest text handed to convert_country_code
MaxCodeLen == 4

CodeChars == {" ", "M", "E", "X", "m", "e", "x", "U", "S"}

TableTexts == {pair[1] : pair \in COUNTRY_CODES} \cup {pair[2] : pair \in COUNTRY_CODES}

\* the cells handed to convert_country_code: the missing marker, every text of
\* at most n characters of CodeChars, every key and every value of the table
CountryInputs(n) ==
    {NaNCell} \cup {StrCell(t) : t \in TableTexts}
    \cup {StrCell(t) : t \in UNION {[1..len -> CodeChars] : len \in 0..n}}

InitCountry ==
    /\ ParseIdle
    /\ fn_arg \in {[agent |-> c, parser |-> c] : c \in CountryInputs(MaxCodeLen)}
    /\ fn_ret = <<>>
    /\ fn_pc = "call"

convert_country_code_both(arg) ==
    [agent |-> convert_country_code(arg.agent),
     parser |-> parser_convert_country_code(arg.parser)]

CallCountry ==
    /\ fn_pc = "call"
    /\ fn_ret' = convert_country_code_both(fn_arg)
    /\ fn_pc' = "ret"
    /\ UNCHANGED fn_arg
    /\ UNCHANGED parse_vars

\* the function applied to its own result
CallCountryAgain ==
    /\ fn_pc = "ret"
    /\ fn_arg' = [agent |-> StrCell(fn_ret.agent), parser |-> StrCell(fn_ret.parser)]
    /\ fn_ret' = convert_country_code_both([agent |-> StrCell(fn_ret.agent),
                                            parser |-> StrCell(fn_ret.parser)])
    /\ fn_pc' = "ret2"
    /\ UNCHANGED parse_vars

NextCountry == CallCountry \/ CallCountryAgain

SpecCountry == InitCountry /\ [][NextCountry]_vars

\* the text t without its leading and trailing blanks, in upper case, written
\* position by position
TrimmedUpper(t) ==
    LET keep == {i \in 1..Len(t) : t[i] # " "}
    IN  IF keep = {} THEN <<>>
        ELSE [i \in 1..(SetMax(keep) - SetMin(keep) + 1) |->
                 upper_char(t[SetMin(keep) + i - 1])]

\* the reference of C17 on a cell
CountryReference(cell) ==
    IF cell.k = "nan" \/ cell.s = <<>> THEN <<>>
    ELSE LET c == TrimmedUpper(cell.s)
         IN  IF Len(c) = 2 THEN c
             ELSE IF \E pair \in COUNTRY_CODES : pair[1] = c
                  THEN (CHOOSE pair \in COUNTRY_CODES : pair[1] = c)[2]
                  ELSE c

\* C17: normalizeCountry returns, for every input, the reference: '' for a
\* missing or empty input; otherwise with c the trimmed upper-cased input, c
\* when c has exactly 2 characters, else the table's value for c when c is a
\* key, else c itself.
C17_CountryReference ==
    fn_pc = "ret" =>
        \A m \in Modules : fn_ret[m] = CountryReference(fn_arg[m])

\* C17 witness: ' mex' gives 'MX' in both modules
C17_Witness ==
    /\ fn_pc = "ret" /\ fn_arg.agent = StrCell(<<" ", "m", "e", "x">>)
    /\ fn_ret.agent = <<"M", "X">> /\ fn_ret.parser = <<"M", "X">>

\* C18: normalizeCountry applied to its own result returns it unchanged, and
\* no value of the origin table is changed by the function.
C18_CountryIdempotent ==
    /\ fn_pc = "ret2" => \A m \in Modules : fn_ret[m] = fn_arg[m].s
    /\ fn_pc = "ret" =>
          \A pair \in COUNTRY_CODES :
              /\ convert_country_code(StrCell(pair[2])) = pair[2]
              /\ \A other \in COUNTRY_CODES : other[1] # pair[2]

\* C18 witness: 'MEX' gave 'MX' and the second pass kept 'MX'
C18_Witness ==
    /\ fn_pc = "ret2" /\ fn_arg.agent = StrCell(<<"M", "X">>)
    /\ fn_ret.agent = <<"M", "X">> /\ fn_ret.parser = <<"M", "X">>

(***************************************************************************)
(* Two parse_file calls on one agent.  parse_file_async hands parse_file   *)
(* to the default executor, a thread pool: two overlapping calls run in    *)
(* two threads.  The first call is the state machine above; the second     *)
(* holds its source in fn_arg, its position in fn_pc and its result in     *)
(* fn_ret.  df, line_items, errors and idx are locals of each call;        *)
(* self.metadata, self.validate and self.max_items belong to the agent.    *)
(***************************************************************************)
HeaderlessRow == [BaseRow EXCEPT ![header_cols.invoice_number] = NaNCell]

\* the rows of the first call: with and without invoice number, without SKU,
\* and with a quantity float() rejects
ConcurrentRowSet ==
    {BaseRow, HeaderlessRow, [BaseRow EXCEPT ![COLUMN_MAP.sku] = NaNCell],
     [BaseRow EXCEPT ![COLUMN_MAP.quantity] = BigCell]}

\* the sources of the second call: one row, with or without invoice number
OtherSources ==
    {[df |-> <<r>>, ncols |-> COLUMN_MAP.hts + 1, aggregate |-> a] :
        r \in {BaseRow, HeaderlessRow}, a \in BOOLEAN}

InitConcurrent ==
    /\ InitParse(ConcurrentRowSet)
    /\ fn_arg \in OtherSources
    /\ fn_ret = <<>>
    /\ fn_pc = "call"

\* lines 175-178 in the second call: the file is read and self.metadata assigned
OtherReadExcel ==
    /\ fn_pc = "call"
    /\ self_metadata' = extract_metadata(fn_arg.df, fn_arg.ncols)
    /\ fn_pc' = "loop"
    /\ UNCHANGED <<fn_arg, fn_ret>>
    /\ UNCHANGED <<source_ok, df, ncols, self_validate, self_max_items, aggregate, pc, idx,
                   line_items, errors, result>>

\* lines 181-246 in the second call: the row loop on its locals, then the
\* returned dictionary with self.metadata as it is read at line 241
OtherReturn ==
    /\ fn_pc = "loop"
    /\ fn_ret' = after_loop(run_rows(self_validate, self_max_items, fn_arg.df, fn_arg.ncols,
                                     0, <<>>, <<>>),
                            self_metadata, fn_arg.aggregate)
    /\ fn_pc' = "ret"
    /\ UNCHANGED fn_arg
    /\ UNCHANGED parse_vars

NextConcurrent == Next \/ OtherReadExcel \/ OtherReturn

SpecConcurrent == InitConcurrent /\ [][NextConcurrent]_vars

\* C19: two overlapping parse_file / parse_file_async calls on different
\* sources, on the same agent, each return exactly the result a solitary parse
\* of its own source returns.
C19_NoSharedState ==
    fn_arg.df # df =>
        /\ Returned =>
              result = parse_file(source_ok, df, ncols, self_validate, self_max_items,
                                  aggregate)
        /\ fn_pc = "ret" =>
              fn_ret = parse_file_async(TRUE, fn_arg.df, fn_arg.ncols, self_validate,
                                        self_max_items, fn_arg.aggregate)

(***************************************************************************)
(* parse_file on frames of every width that matters to extract_metadata    *)
(***************************************************************************)
\* rows that differ in their header cells, and a row without SKU
HeaderRowSet ==
    {BaseRow, HeaderlessRow,
     [BaseRow EXCEPT ![header_cols.pedimento] = NaNCell,
                     ![header_cols.cove] = StrCell(<<"c">>)],
     [BaseRow EXCEPT ![COLUMN_MAP.sku] = NaNCell, ![header_cols.vendor] = NaNCell]}

\* column counts: the pedimento column only, up to the vendor column, and the
\* widths of Widths
HeaderWidths ==
    {header_cols.pedimento + 1, header_cols.vendor + 1} \cup Widths

InitHeader == InitFrame(HeaderRowSet, HeaderWidths) /\ FnIdle

SpecHeader == InitHeader /\ [][Next]_vars

\* the header fields whose position exists in the first row and holds a value
HeaderKeys ==
    IF Len(df) = 0 THEN {}
    ELSE {key \in DOMAIN header_cols :
             header_cols[key] < ncols /\ df[1][header_cols[key]].k # "nan"}

\* C20: the metadata has a key for a header field iff the field's position
\* exists in the first row and holds a non-missing value, with that value; a
\* source with no rows gives the empty mapping; later rows, the aggregate flag
\* and validation have no part in it.
C20_MetadataFromFirstRow ==
    /\ (pc \in {"loop", "finish"} \/ Returned) /\ source_ok =>
          /\ DOMAIN self_metadata = HeaderKeys
          /\ \A key \in HeaderKeys : self_metadata[key] = df[1][header_cols[key]]
    /\ Succeeded => result.metadata = self_metadata

\* C20 witness: an aggregated parse of two rows whose first row has no invoice
\* number and whose second row has one
C20_Witness ==
    /\ Succeeded /\ aggregate /\ Len(df) = 2
    /\ df[1] = HeaderlessRow /\ df[2] = BaseRow
    /\ DOMAIN result.metadata = {"pedimento", "vendor", "total_value"}

\* the schema fields whose position lies beyond the last column of the frame
AbsentFields == {f \in DOMAIN COLUMN_MAP : COLUMN_MAP[f] >= ncols}

\* row holds no number float() rejects
Convertible(row) == \A f \in NumericColumns : row[COLUMN_MAP[f]].k # "bigint"

\* C21: a row shorter than a schema position is treated as having a missing
\* cell there: without SKU cell it is skipped like a blank-SKU row, with a SKU
\* it gives an item with empty/null for the absent fields and no error entry;
\* a short row never aborts the whole parse.
C21_ShortRowIsMissing ==
    /\ (Returned /\ source_ok) => result.success
    /\ BeforeAggregation =>
          \A i \in 0..(idx - 1) :
              IF ncols <= COLUMN_MAP.sku \/ BlankRow(df[i + 1])
              THEN ~HasItem(i + 1) /\ ~HasError(i + 1)
              ELSE Convertible(df[i + 1]) =>
                      /\ \A e \in 1..Len(errors) :
                            errors[e].line = i + 1 => ~IsParseError(errors[e])
                      /\ \E j \in 1..Len(line_items) :
                            /\ line_items[j].line_number = i + 1
                            /\ \A f \in AbsentFields :
                                  IF f \in NumericColumns THEN line_items[j][f] = Null
                                  ELSE line_items[j][f] = <<>>

\* C22: in every successful result, aggregated or not, each validation entry
\* of errors is keyed by the line number of its item: exactly one returned
\* item has the entry's line as line_number, and the issues of that item are
\* the ones the entry reports.
C22_ErrorsKeyedByItemLine ==
    Succeeded =>
        \A e \in 1..Len(result.errors) :
            ~IsParseError(result.errors[e]) =>
                /\ Cardinality({j \in 1..Len(result.items) :
                                   result.items[j].line_number = result.errors[e].line}) = 1
                /\ \A j \in 1..Len(result.items) :
                      result.items[j].line_number = result.errors[e].line =>
                          validate_item(result.items[j]) = result.errors[e].errors

\* the line numbers of the rows that give an item when they are processed
ExtractableLines ==
    SelectSeq([i \in 1..Len(df) |-> i], LAMBDA i : Extractable(df[i]))

LinesOf(items) == [j \in 1..Len(items) |-> items[j].line_number]

\* the row loop under a limit that is in force when limited holds: the list
\* never holds more than the limit, holds the extractable rows read so far, no
\* row beyond the stopping point gives an item or an errors entry, and the loop
\* ends at the row of the last item allowed, or at the last row without limit
MaxItemsRule(limited) ==
    (BeforeAggregation /\ ncols > COLUMN_MAP.sku) =>
        /\ limited => Len(line_items) <= self_max_items[1]
        /\ LinesOf(line_items) = SelectSeq(ExtractableLines, LAMBDA l : l <= idx)
        /\ \A e \in 1..Len(errors) : errors[e].line <= idx
        /\ pc # "loop" =>
              IF limited /\ Len(ExtractableLines) >= self_max_items[1]
              THEN /\ LinesOf(line_items) = SubSeq(ExtractableLines, 1, self_max_items[1])
                   /\ idx = IF self_max_items[1] = 0 THEN 0
                            ELSE ExtractableLines[self_max_items[1]]
              ELSE LinesOf(line_items) = ExtractableLines /\ idx = Len(df)

====
